---- MODULE Spec2Model ----
(***************************************************************************)
(* The workshop notebooks as state machines.  A notebook run executes the  *)
(* code cells in order in one Python kernel; a cell that raises stops the  *)
(* run.  The state is the kernel namespace, the local data/ folder, the    *)
(* default S3 bucket, the training job and the hosted endpoint, the files  *)
(* of scripts/ and the answers typed at the prompts of the batch notebook. *)
(*                                                                         *)
(* Arrays are represented by their number of rows (shape[0]) and a file or *)
(* S3 object by the number of records it holds.  Paths and S3 keys are     *)
(* sequences of their '/'-separated components; a text file is the         *)
(* sequence of its lines.  Cells that only import,                         *)
(* define a function or display something change none of this state and    *)
(* have no action; the functions they define are operators here.           *)
(***************************************************************************)
EXTENDS FiniteSets, Integers, Sequences, TLC

VARIABLES
    nb,        \* the notebook being run
    pc,        \* the next code cell to execute ("done" after the last one)
    exc,       \* "" or the class of the exception that stopped the run
    ns,        \* the kernel namespace: Python name -> value
    fs,        \* the local file system below the working directory
    s3,        \* the default bucket: key -> number of records in the object
    job,       \* status of the training job
    endpoint,  \* status of the hosted endpoint
    log,       \* the cells completed so far, one "predict" per prediction
    scripts,   \* the text files of scripts/: file name -> lines
    typed      \* what the user typed at the input() prompts, in order

vars == <<nb, pc, exc, ns, fs, s3, job, endpoint, log, scripts, typed>>

---------------------------------------------------------------------------
(* Bounds of the data-cell specification SpecData.                         *)
MaxLen == 3
MaxFiles == 3
MaxRuns == 3
(* Bound of the sed specification SpecSed: executions of the sed cell.     *)
MaxSedRuns == 4
(* Bound of the batch specification SpecBatch: images in the data set.     *)
MaxImages == 2

---------------------------------------------------------------------------
(* Helpers.                                                                *)

IsPrefix(p, q) == Len(p) <= Len(q) /\ SubSeq(q, 1, Len(p)) = p

Last(s) == s[Len(s)]

Parent(p) == SubSeq(p, 1, Len(p) - 1)

Restrict(f, S) == [k \in S |-> f[k]]

\* Python's name binding and del.
NoNames == [n \in {} |-> 0]
Bind(names, n, v) == (n :> v) @@ names
Del(names, n) == Restrict(names, DOMAIN names \ {n})
Defined(names, S) == S \subseteq DOMAIN names

\* A file system is a set of directories and a map file -> record count.
NoFiles == [p \in {} |-> 0]
NoData == [dirs |-> {}, files |-> NoFiles]

\* Result of a statement sequence: the file system reached and the exception.
Ok(f) == [fs |-> f, exc |-> ""]
Raise(f, e) == [fs |-> f, exc |-> e]

---------------------------------------------------------------------------
(* hello-pipe-mode: library calls on the local file system.                *)

\* Mutant of rmtree: ignore_errors is not honoured.
rmtree_strict(f, path, ignore_errors) ==
    IF path \notin f.dirs
    THEN Raise(f, "FileNotFoundError")
    ELSE Ok([dirs  |-> {d \in f.dirs : ~IsPrefix(path, d)},
             files |-> Restrict(f.files,
                          {p \in DOMAIN f.files : ~IsPrefix(path, p)})])

\* shutil.rmtree(path, ignore_errors): removes the tree; a missing path
\* raises unless ignore_errors is set.
rmtree(f, path, ignore_errors) ==
    IF path \notin f.dirs
    THEN IF ignore_errors THEN Ok(f) ELSE Raise(f, "FileNotFoundError")
    ELSE Ok([dirs  |-> {d \in f.dirs : ~IsPrefix(path, d)},
             files |-> Restrict(f.files,
                          {p \in DOMAIN f.files : ~IsPrefix(path, p)})])

\* os.makedirs(path) with exist_ok left False: creates the leaf and the
\* missing ancestors; an existing leaf raises FileExistsError.
makedirs(f, path) ==
    IF path \in f.dirs \/ path \in DOMAIN f.files
    THEN Raise(f, "FileExistsError")
    ELSE IF \E k \in 1..(Len(path) - 1) : SubSeq(path, 1, k) \in DOMAIN f.files
    THEN Raise(f, "NotADirectoryError")
    ELSE Ok([f EXCEPT !.dirs = @ \cup {SubSeq(path, 1, k) : k \in 1..Len(path)}])

\* r ; makedirs(path)
ThenMakedirs(r, path) == IF r.exc # "" THEN r ELSE makedirs(r.fs, path)

\* Mutant of ResetData: the old folder is not removed first.
ResetDataWithoutRmtree(f) ==
    ThenMakedirs(ThenMakedirs(makedirs(f,
        <<"data", "train">>), <<"data", "test">>), <<"data", "val">>)

\* The reset cell.
ResetData(f) ==
    ThenMakedirs(ThenMakedirs(ThenMakedirs(
        rmtree(f, <<"data">>, TRUE),
        <<"data", "train">>), <<"data", "test">>), <<"data", "val">>)

---------------------------------------------------------------------------
(* hello-pipe-mode: writing the TFRecord files.                            *)

\* convert_to_tfr(x, y, out_file): TFRecordWriter creates or truncates
\* out_file (its folder must exist) and the loop writes one record per row
\* of x, reading y[i] for each; a shorter y raises IndexError at row len(y).
convert_to_tfr(f, x, y, out_file) ==
    IF Parent(out_file) \notin f.dirs
    THEN Raise(f, "NotFoundError")
    ELSE IF y < x
    THEN Raise([f EXCEPT !.files = (out_file :> y) @@ @], "IndexError")
    ELSE Ok([f EXCEPT !.files = (out_file :> x) @@ @])

\* Mutant of array_split: equal sections, the remainder in the last one.
array_split_remainder_last(len, n) ==
    [i \in 1..n |-> IF i = n THEN (len \div n) + (len % n) ELSE len \div n]

\* np.array_split(ary, n): divmod(len, n) gives each section's size and the
\* number of leading sections one row longer.  <<size of section i>>.
array_split(len, n) ==
    LET Neach_section == len \div n
        extras        == len % n
    IN  [i \in 1..n |-> IF i <= extras THEN Neach_section + 1 ELSE Neach_section]

\* Mutant of ShardPath: the index is left out of the file name.
ShardPathWithoutIndex(channel, i) ==
    <<"data", channel, channel \o ".tfrecords">>

\* './data/{}/{}{}.tfrecords'.format(channel, channel, i)
ShardPath(channel, i) ==
    <<"data", channel, channel \o ToString(i) \o ".tfrecords">>

\* The loop of save_to_n_files from index i on.
RECURSIVE SaveFrom(_, _, _, _, _, _)
SaveFrom(r, split_x, split_y, n_files, channel, i) ==
    IF r.exc # "" \/ i >= n_files
    THEN r
    ELSE SaveFrom(convert_to_tfr(r.fs, split_x[i + 1], split_y[i + 1],
                                 ShardPath(channel, i)),
                  split_x, split_y, n_files, channel, i + 1)

\* save_to_n_files(x, y, n_files, channel); array_split raises ValueError
\* when the number of sections is not positive.
save_to_n_files(f, x, y, n_files, channel) ==
    IF n_files <= 0
    THEN Raise(f, "ValueError")
    ELSE SaveFrom(Ok(f), array_split(x, n_files), array_split(y, n_files),
                  n_files, channel, 0)

\* One call of the save cell: r ; save_to_n_files(X, y, NUM_FILES, channel),
\* the arguments being looked up in the namespace.
ThenSave(r, names, X, y, channel) ==
    IF r.exc # "" THEN r
    ELSE IF ~Defined(names, {X, y, "NUM_FILES"}) THEN Raise(r.fs, "NameError")
    ELSE save_to_n_files(r.fs, names[X], names[y], names["NUM_FILES"], channel)

\* The save cell.
SaveData(f, names) ==
    ThenSave(ThenSave(ThenSave(Ok(f),
        names, "X_train", "y_train", "train"),
        names, "X_test", "y_test", "test"),
        names, "X_val", "y_val", "val")

---------------------------------------------------------------------------
(* hello-pipe-mode: what the TFRecord files hold.  Here an array is the    *)
(* sequence of its rows and a file the sequence of its records.            *)

\* div_points of np.array_split: the rows in the sections before section i.
RECURSIVE DivPoint(_, _)
DivPoint(sizes, i) ==
    IF i <= 1 THEN 0 ELSE sizes[i - 1] + DivPoint(sizes, i - 1)

\* Mutant of array_split_rows: every section starts at a multiple of
\* len // n.
array_split_rows_equal_starts(ary, n) ==
    LET sizes == array_split(Len(ary), n)
        start(i) == (i - 1) * (Len(ary) \div n)
    IN  [i \in 1..n |-> SubSeq(ary, start(i) + 1, start(i) + sizes[i])]

\* np.array_split(ary, n): sub_arys[i] = ary[div_points[i]:div_points[i + 1]]
array_split_rows(ary, n) ==
    LET sizes == array_split(Len(ary), n)
    IN  [i \in 1..n |-> SubSeq(ary, DivPoint(sizes, i) + 1,
                               DivPoint(sizes, i) + sizes[i])]

\* The loop of convert_to_tfr: record i has x[i] as 'features' and int(y[i]),
\* y[i] being a whole number, as 'label'.
Examples(x, y) ==
    [i \in 1..Len(x) |-> [features |-> x[i], label |-> y[i]]]

\* convert_to_tfr(x, y, out_file) on rows: out_file is created or truncated
\* and gets one record per row of x; a shorter y raises IndexError.
convert_rows_to_tfr(f, x, y, out_file) ==
    IF Parent(out_file) \notin f.dirs
    THEN Raise(f, "NotFoundError")
    ELSE IF Len(y) < Len(x)
    THEN Raise([f EXCEPT !.files = (out_file :> Examples(SubSeq(x, 1, Len(y)), y))
                                    @@ @], "IndexError")
    ELSE Ok([f EXCEPT !.files = (out_file :> Examples(x, y)) @@ @])

\* The loop of save_to_n_files on rows, from index i on.
RECURSIVE SaveRowsFrom(_, _, _, _, _, _)
SaveRowsFrom(r, split_x, split_y, n_files, channel, i) ==
    IF r.exc # "" \/ i >= n_files
    THEN r
    ELSE SaveRowsFrom(convert_rows_to_tfr(r.fs, split_x[i + 1], split_y[i + 1],
                                          ShardPath(channel, i)),
                      split_x, split_y, n_files, channel, i + 1)

\* save_to_n_files(x, y, n_files, channel) on rows.
save_rows_to_n_files(f, x, y, n_files, channel) ==
    IF n_files <= 0
    THEN Raise(f, "ValueError")
    ELSE SaveRowsFrom(Ok(f), array_split_rows(x, n_files),
                      array_split_rows(y, n_files), n_files, channel, 0)

---------------------------------------------------------------------------
(* hello-pipe-mode: configuration and dataset.                             *)

\* The values MODE is given: the names the code compares with and the names
\* the notebook's text uses.
ModeNames == {"fast-demo", "one-slow-node", "speedy-cluster",
              "fast_demo", "one_slow_node", "speedy_cluster"}

\* Mutant of ModeConfig: 20 files in the large configuration.
ModeConfigTwentyFiles(names, MODE) ==
    LET common == ("BATCH_SIZE" :> 64) @@ ("INPUT_MODE" :> "Pipe")
        large  == ("NUM_SAMPLES" :> 90000) @@ ("NUM_FEATURES" :> 5000)
                  @@ ("NUM_FILES" :> 20) @@ ("NUM_EPOCHS" :> 5000)
    IN  IF MODE = "fast-demo"
        THEN common @@ ("TRAIN_INSTANCE_COUNT" :> 1) @@ ("NUM_SAMPLES" :> 10000)
             @@ ("NUM_FEATURES" :> 50) @@ ("NUM_FILES" :> 6)
             @@ ("NUM_EPOCHS" :> 200) @@ ("BASE_JOB_NAME" :> "tf-pipe-fast-demo")
             @@ ("MODE" :> MODE) @@ names
        ELSE IF MODE = "one-slow-node"
        THEN common @@ ("TRAIN_INSTANCE_COUNT" :> 1)
             @@ ("BASE_JOB_NAME" :> "tf-pipe-one-slow-node")
             @@ large @@ ("MODE" :> MODE) @@ names
        ELSE common @@ ("TRAIN_INSTANCE_COUNT" :> 3)
             @@ ("BASE_JOB_NAME" :> "tf-pipe-speedy-cluster-" \o ToString(3))
             @@ large @@ ("MODE" :> MODE) @@ names

\* The MODE cell.
ModeConfig(names, MODE) ==
    LET common == ("BATCH_SIZE" :> 64) @@ ("INPUT_MODE" :> "Pipe")
        large  == ("NUM_SAMPLES" :> 90000) @@ ("NUM_FEATURES" :> 5000)
                  @@ ("NUM_FILES" :> 21) @@ ("NUM_EPOCHS" :> 5000)
    IN  IF MODE = "fast-demo"
        THEN common @@ ("TRAIN_INSTANCE_COUNT" :> 1) @@ ("NUM_SAMPLES" :> 10000)
             @@ ("NUM_FEATURES" :> 50) @@ ("NUM_FILES" :> 6)
             @@ ("NUM_EPOCHS" :> 200) @@ ("BASE_JOB_NAME" :> "tf-pipe-fast-demo")
             @@ ("MODE" :> MODE) @@ names
        ELSE IF MODE = "one-slow-node"
        THEN common @@ ("TRAIN_INSTANCE_COUNT" :> 1)
             @@ ("BASE_JOB_NAME" :> "tf-pipe-one-slow-node")
             @@ large @@ ("MODE" :> MODE) @@ names
        ELSE common @@ ("TRAIN_INSTANCE_COUNT" :> 3)
             @@ ("BASE_JOB_NAME" :> "tf-pipe-speedy-cluster-" \o ToString(3))
             @@ large @@ ("MODE" :> MODE) @@ names

\* A Python float that is the result of rounding: the ratio num/den and
\* whether the double lies above it.  test_size + val_size = 0.1 + 0.2 is
\* the double 0.30000000000000004, above 3/10; test_size / (test_size +
\* val_size) is 0.3333333333333333, below 1/3.
TestPlusVal == [num |-> 3, den |-> 10, above |-> TRUE]
TestOverTestPlusVal == [num |-> 1, den |-> 3, above |-> FALSE]

\* ceil(x * n) for such a float x and n >= 1.  A double above num/den gives
\* a product above num*n/den, also when that is an integer: the excess is
\* rounded to a whole ulp of the product.
CeilTimes(x, n) ==
    LET q == (x.num * n) \div x.den
        r == (x.num * n) % x.den
    IN  IF x.above \/ r # 0 THEN q + 1 ELSE q

\* train_test_split(arrays of n rows, test_size=x):
\* n_test = ceil(test_size * n), n_train = n - n_test; the first array
\* returned is the train part, the second the test part.
train_test_split(n, x) ==
    LET n_test == CeilTimes(x, n)
    IN  [train |-> n - n_test, test |-> n_test]

\* The split cell.
SplitData(names) ==
    LET first  == train_test_split(names["NUM_SAMPLES"], TestPlusVal)
        second == train_test_split(first.test, TestOverTestPlusVal)
    IN  ("X_train" :> first.train) @@ ("y_train" :> first.train)
        @@ ("X_test" :> second.train) @@ ("y_test" :> second.train)
        @@ ("X_val" :> second.test) @@ ("y_val" :> second.test)
        @@ ("X1" :> names["NUM_SAMPLES"]) @@ ("Y1" :> names["NUM_SAMPLES"])
        @@ names

\* Mutant of CountSamples: the validation and test counts the wrong way round.
CountSamplesSwapped(names) ==
    ("num_train_samples" :> names["X_train"])
    @@ ("num_val_samples" :> names["X_test"])
    @@ ("num_test_samples" :> names["X_val"]) @@ names

\* The sample-count cell.
CountSamples(names) ==
    ("num_train_samples" :> names["X_train"])
    @@ ("num_val_samples" :> names["X_val"])
    @@ ("num_test_samples" :> names["X_test"]) @@ names

---------------------------------------------------------------------------
(* hello-pipe-mode: the bucket.                                            *)

NoObjects == [k \in {} |-> 0]

data_prefix == <<"data", "DEMO-hello-pipe-mode">>

\* A key starts with the string prefix + '/'.
UnderPrefix(key, prefix) == IsPrefix(prefix, key) /\ Len(key) > Len(prefix)

\* Mutant of delete_objects: the filter is given the prefix without the
\* bucket-side folder, so it matches none of the uploaded objects.
delete_objects_other_prefix(bucket, prefix) ==
    Restrict(bucket, {k \in DOMAIN bucket : ~UnderPrefix(k, Tail(prefix))})

\* s3_bucket.objects.filter(Prefix=prefix + '/').delete()
delete_objects(bucket, prefix) ==
    Restrict(bucket, {k \in DOMAIN bucket : ~UnderPrefix(k, prefix)})

\* sagemaker_session.upload_data(path, key_prefix): every file found by
\* walking path is put under key_prefix + '/' + its path relative to path.
upload_data(bucket, f, path, key_prefix) ==
    LET found  == {p \in DOMAIN f.files : IsPrefix(path, p)}
        Key(p) == key_prefix \o SubSeq(p, Len(path) + 1, Len(p))
    IN  [k \in {Key(p) : p \in found} |->
            f.files[CHOOSE p \in found : Key(p) = k]] @@ bucket

\* Where fit leaves the model of a training job.
ModelArtifact(job_name) == <<job_name, "output", "model.tar.gz">>

---------------------------------------------------------------------------
(* The text of scripts/train.py and the sed command of the notebook.  A    *)
(* line is the sequence of its blank-separated words; a word is its text   *)
(* and the number of '#' characters in front of it.                        *)

Word(t) == [hashes |-> 0, text |-> t]
Commented(w) == [w EXCEPT !.hashes = @ + 1]

\* scripts/train.py as checked out: one assignment to NUM_FEATURES, used as
\* the input shape of the network.
TrainPy ==
    << <<Word("import"), Word("tensorflow"), Word("as"), Word("tf")>>,
       <<Word("NUM_FEATURES"), Word("="), Word("50")>>,
       <<Word("inputs"), Word("="), Word("Input(shape=(NUM_FEATURES,))")>> >>

Scripts == ("train.py" :> TrainPy)

\* Where the pattern 'NUM_FEATURES = ' matches in a line: the name, a blank,
\* '=' and a blank, so that another word follows.
Matches(line) ==
    {i \in 1..(Len(line) - 2) :
        line[i].text = "NUM_FEATURES" /\ line[i + 1] = Word("=")}

\* Mutant of Substitute: the replacement lacks the '#'.
SubstituteWithoutHash(line, value) ==
    IF Matches(line) = {} THEN line
    ELSE LET i == CHOOSE j \in Matches(line) : \A k \in Matches(line) : j <= k
         IN  SubSeq(line, 1, i + 1) \o <<Word(value)>>
             \o SubSeq(line, i + 2, Len(line))

\* s/NUM_FEATURES = /NUM_FEATURES = value #/ on one line: the first match is
\* replaced, and the '#' is put right in front of the word that followed it.
Substitute(line, value) ==
    IF Matches(line) = {} THEN line
    ELSE LET i == CHOOSE j \in Matches(line) : \A k \in Matches(line) : j <= k
         IN  SubSeq(line, 1, i + 1) \o <<Word(value), Commented(line[i + 2])>>
             \o SubSeq(line, i + 3, Len(line))

\* sed applies the command to every line of its input.
sed(lines, value) == [k \in DOMAIN lines |-> Substitute(lines[k], value)]

\* IPython puts str(NUM_FEATURES) in place of {NUM_FEATURES}, and leaves the
\* braces as they are when the name is not defined.
Expand(names) ==
    IF Defined(names, {"NUM_FEATURES"}) THEN ToString(names["NUM_FEATURES"])
    ELSE "{NUM_FEATURES}"

\* mv: the file gets the new name, replacing a file of that name.
mv(files, from, to) ==
    (to :> files[from]) @@ Restrict(files, DOMAIN files \ {from, to})

---------------------------------------------------------------------------
(* The order of the code cells.                                            *)

\* Mutant of HelloCells: the upload cell above the save cell.
HelloCellsUploadBeforeSave ==
    <<"types", "mode", "sed", "split", "counts", "reset", "session",
      "upload", "save", "del_train", "estimator", "fit", "deploy", "predict",
      "delete_endpoint", "cleanup", "del_test">>

\* hello-pipe-mode.ipynb
HelloCells == <<"types", "mode", "sed", "split", "counts", "reset", "save",
                "del_train", "session", "upload", "estimator", "fit",
                "deploy", "predict", "delete_endpoint", "cleanup", "del_test">>

\* Mutant of HostCells: no cell deletes the endpoint.
HostCellsWithoutDelete ==
    <<"h_estimator", "h_inputs", "h_fit", "h_replace", "h_deploy",
      "h_predict", "h_val", "h_test", "h_unseen">>

\* The training/hosting notebook, from the estimator cell on.
HostCells == <<"h_estimator", "h_inputs", "h_fit", "h_replace", "h_deploy",
               "h_predict", "h_val", "h_test", "h_unseen", "h_delete">>

\* The batch notebook.
BatchCells == <<"b_config", "b_classes", "b_session", "b_image", "b_model",
                "b_paths", "b_rm_s3", "b_rm_local", "b_transform",
                "b_download", "b_sample", "b_eval", "b_accuracy", "b_cm">>

Cells(notebook) ==
    IF notebook = "hello-pipe-mode" THEN HelloCells
    ELSE IF notebook = "tf-batch" THEN BatchCells ELSE HostCells

\* The cell below cell c of the notebook.
NextCell(notebook, c) ==
    LET cs == Cells(notebook)
        i  == CHOOSE j \in 1..Len(cs) : cs[j] = c
    IN  IF i = Len(cs) THEN "done" ELSE cs[i + 1]

\* The kernel is about to execute cell c.
At(c) == pc = c /\ exc = ""

\* Cell c ran to its end.
Completes(c) ==
    /\ pc' = NextCell(nb, c)
    /\ exc' = ""
    /\ log' = Append(log, c)

\* The cell raised e: the run stops at it.
Raises(e) == pc' = pc /\ exc' = e /\ log' = log

---------------------------------------------------------------------------
(* hello-pipe-mode: the cells.                                             *)

total_to_test == 100

TypesCell ==
    /\ At("types")
    /\ ns' = Bind(Bind(ns, "train_instance_type", "ml.c5.xlarge"),
                  "serve_instance_type", "ml.m4.xlarge")
    /\ Completes("types")
    /\ UNCHANGED <<typed, scripts, nb, fs, s3, job, endpoint>>

ModeCell ==
    /\ At("mode")
    /\ \E MODE \in ModeNames : ns' = ModeConfig(ns, MODE)
    /\ Completes("mode")
    /\ UNCHANGED <<typed, scripts, nb, fs, s3, job, endpoint>>

\* The shell commands of the cell raise nothing in the kernel.
SedCell ==
    /\ At("sed")
    /\ LET tmp == sed(scripts["train.py"], Expand(ns))
       IN  scripts' = mv(("tmp.py" :> tmp) @@ scripts, "tmp.py", "train.py")
    /\ Completes("sed")
    /\ UNCHANGED <<typed, nb, ns, fs, s3, job, endpoint>>

SplitCell ==
    /\ At("split")
    /\ IF Defined(ns, {"NUM_SAMPLES", "NUM_FEATURES"})
       THEN ns' = SplitData(ns) /\ Completes("split")
       ELSE ns' = ns /\ Raises("NameError")
    /\ UNCHANGED <<typed, scripts, nb, fs, s3, job, endpoint>>

CountsCell ==
    /\ At("counts")
    /\ IF Defined(ns, {"X_train", "X_val", "X_test"})
       THEN ns' = CountSamples(ns) /\ Completes("counts")
       ELSE ns' = ns /\ Raises("NameError")
    /\ UNCHANGED <<typed, scripts, nb, fs, s3, job, endpoint>>

ResetCell ==
    /\ At("reset")
    /\ LET r == ResetData(fs)
       IN  /\ fs' = r.fs
           /\ IF r.exc = "" THEN Completes("reset") ELSE Raises(r.exc)
    /\ UNCHANGED <<typed, scripts, nb, ns, s3, job, endpoint>>

SaveCell ==
    /\ At("save")
    /\ LET r == SaveData(fs, ns)
       IN  /\ fs' = r.fs
           /\ IF r.exc = "" THEN Completes("save") ELSE Raises(r.exc)
    /\ UNCHANGED <<typed, scripts, nb, ns, s3, job, endpoint>>

DelTrainCell ==
    /\ At("del_train")
    /\ IF Defined(ns, {"X_train", "y_train", "X_val", "y_val"})
       THEN /\ ns' = Del(Del(Del(Del(ns, "X_train"), "y_train"), "X_val"), "y_val")
            /\ Completes("del_train")
       ELSE ns' = ns /\ Raises("NameError")
    /\ UNCHANGED <<typed, scripts, nb, fs, s3, job, endpoint>>

SessionCell ==
    /\ At("session")
    /\ ns' = ("sagemaker_session" :> "Session") @@ ("role" :> "role")
             @@ ("bucket" :> "default_bucket") @@ ("data_prefix" :> data_prefix)
             @@ ns
    /\ Completes("session")
    /\ UNCHANGED <<typed, scripts, nb, fs, s3, job, endpoint>>

\* The upload cell: the old objects are deleted, then data/ is uploaded.
\* A call to S3 may fail with ClientError, before or after the deletion.
UploadCell ==
    /\ At("upload")
    /\ IF ~Defined(ns, {"bucket", "data_prefix", "sagemaker_session"})
       THEN s3' = s3 /\ ns' = ns /\ Raises("NameError")
       ELSE LET cleared == delete_objects(s3, ns["data_prefix"])
            IN  \/ s3' = s3 /\ ns' = ns /\ Raises("ClientError")
                \/ s3' = cleared /\ ns' = ns /\ Raises("ClientError")
                \/ /\ <<"data">> \notin fs.dirs
                   /\ s3' = cleared /\ ns' = ns /\ Raises("FileNotFoundError")
                \/ /\ <<"data">> \in fs.dirs
                   /\ s3' = upload_data(cleared, fs, <<"data">>, ns["data_prefix"])
                   /\ ns' = Bind(ns, "inputs", ns["data_prefix"])
                   /\ Completes("upload")
    /\ UNCHANGED <<typed, scripts, nb, fs, job, endpoint>>

EstimatorCell ==
    /\ At("estimator")
    /\ IF Defined(ns, {"NUM_EPOCHS", "BATCH_SIZE", "num_train_samples",
                       "num_val_samples", "num_test_samples", "INPUT_MODE",
                       "train_instance_type", "TRAIN_INSTANCE_COUNT",
                       "BASE_JOB_NAME"})
       THEN /\ ns' = Bind(Bind(ns, "hyperparameters",
                     [epochs            |-> ns["NUM_EPOCHS"],
                      batch_size        |-> ns["BATCH_SIZE"],
                      num_train_samples |-> ns["num_train_samples"],
                      num_val_samples   |-> ns["num_val_samples"],
                      num_test_samples  |-> ns["num_test_samples"]]),
                     "estimator",
                     [train_instance_count |-> ns["TRAIN_INSTANCE_COUNT"],
                      base_job_name        |-> ns["BASE_JOB_NAME"]])
            /\ Completes("estimator")
       ELSE ns' = ns /\ Raises("NameError")
    /\ UNCHANGED <<typed, scripts, nb, fs, s3, job, endpoint>>

\* The channels are the prefixes inputs/train, inputs/test, inputs/val.
ChannelObjects(bucket, inputs, channel) ==
    {k \in DOMAIN bucket : UnderPrefix(k, inputs \o <<channel>>)}

\* The fit cell: fit(wait=True) returns when the job has completed and
\* raises when it failed; a channel without objects fails it.
FitCell ==
    /\ At("fit")
    /\ IF ~Defined(ns, {"inputs", "estimator"})
       THEN s3' = s3 /\ job' = job /\ Raises("NameError")
       ELSE \/ s3' = s3 /\ job' = "Failed" /\ Raises("UnexpectedStatusException")
            \/ /\ \A ch \in {"train", "val", "test"} :
                     ChannelObjects(s3, ns["inputs"], ch) # {}
               /\ s3' = (ModelArtifact(ns["estimator"].base_job_name) :> 1) @@ s3
               /\ job' = "Completed"
               /\ Completes("fit")
    /\ UNCHANGED <<typed, scripts, nb, ns, fs, endpoint>>

\* The deploy cell: deploy returns when the endpoint is in service.
DeployCell ==
    /\ At("deploy")
    /\ IF ~Defined(ns, {"estimator", "serve_instance_type"})
       THEN ns' = ns /\ endpoint' = endpoint /\ Raises("NameError")
       ELSE \/ ns' = ns /\ endpoint' = endpoint
               /\ Raises("UnexpectedStatusException")
            \/ /\ job = "Completed"
               /\ ns' = Bind(ns, "predictor", "Predictor")
               /\ endpoint' = "InService"
               /\ Completes("deploy")
    /\ UNCHANGED <<typed, scripts, nb, fs, s3, job>>

\* k times "predict".
Predictions(k) == [i \in 1..k |-> "predict"]

\* The prediction cell: total_to_test calls of predictor.predict(X_test[i]).
\* The loop stops at the first call that raises: an index beyond X_test, an
\* endpoint that is not in service, or a failed request.
PredictCell ==
    /\ At("predict")
    /\ IF ~Defined(ns, {"predictor", "X_test", "y_test"})
       THEN pc' = pc /\ exc' = "NameError" /\ log' = log
       ELSE \E k \in 0..total_to_test :
               /\ log' = log \o Predictions(k)
               /\ k > 0 => endpoint = "InService" /\ k <= ns["X_test"]
               /\ IF k = total_to_test
                  THEN pc' = NextCell(nb, "predict") /\ exc' = ""
                  ELSE /\ pc' = pc
                       /\ exc' = IF k >= ns["X_test"] THEN "IndexError"
                                 ELSE "ClientError"
    /\ UNCHANGED <<typed, scripts, nb, ns, fs, s3, job, endpoint>>

DeleteEndpointCell ==
    /\ At("delete_endpoint")
    /\ IF ~Defined(ns, {"sagemaker_session", "predictor"})
       THEN endpoint' = endpoint /\ Raises("NameError")
       ELSE \/ endpoint' = endpoint /\ Raises("ClientError")
            \/ /\ endpoint = "InService"
               /\ endpoint' = "Deleted"
               /\ Completes("delete_endpoint")
    /\ UNCHANGED <<typed, scripts, nb, ns, fs, s3, job>>

\* The clean-up cell: the data folder is removed, then the objects.
CleanupCell ==
    /\ At("cleanup")
    /\ LET r == rmtree(fs, <<"data">>, TRUE)
       IN  /\ fs' = r.fs
           /\ IF r.exc # ""
              THEN s3' = s3 /\ Raises(r.exc)
              ELSE IF ~Defined(ns, {"bucket", "data_prefix"})
              THEN s3' = s3 /\ Raises("NameError")
              ELSE \/ s3' = s3 /\ Raises("ClientError")
                   \/ /\ s3' = delete_objects(s3, ns["data_prefix"])
                      /\ Completes("cleanup")
    /\ UNCHANGED <<typed, scripts, nb, ns, job, endpoint>>

DelTestCell ==
    /\ At("del_test")
    /\ IF Defined(ns, {"X_test", "y_test"})
       THEN ns' = Del(Del(ns, "X_test"), "y_test") /\ Completes("del_test")
       ELSE ns' = ns /\ Raises("NameError")
    /\ UNCHANGED <<typed, scripts, nb, fs, s3, job, endpoint>>

---------------------------------------------------------------------------
(* The training/hosting notebook: the cells from the estimator on.         *)

HostEstimatorCell ==
    /\ At("h_estimator")
    /\ \E local \in BOOLEAN :
          ns' = ("local" :> local)
                @@ ("train_instance_type" :> IF local THEN "local" ELSE "ml.p3.2xlarge")
                @@ ("serve_instance_type" :> IF local THEN "local" ELSE "ml.c5.xlarge")
                @@ ("fine_tuning_epochs" :> IF local THEN 5 ELSE 25)
                @@ ("estimator" :> [train_instance_count |-> 1,
                                    base_job_name        |-> "tf-7"])
                @@ ns
    /\ Completes("h_estimator")
    /\ UNCHANGED <<typed, scripts, nb, fs, s3, job, endpoint>>

HostInputsCell ==
    /\ At("h_inputs")
    /\ IF Defined(ns, {"local"})
       THEN /\ ns' = Bind(ns, "inputs", IF ns["local"] THEN "file://data" ELSE "s3://data")
            /\ Completes("h_inputs")
       ELSE ns' = ns /\ Raises("NameError")
    /\ UNCHANGED <<typed, scripts, nb, fs, s3, job, endpoint>>

HostFitCell ==
    /\ At("h_fit")
    /\ IF ~Defined(ns, {"estimator", "inputs"})
       THEN job' = job /\ Raises("NameError")
       ELSE \/ job' = "Failed" /\ Raises("UnexpectedStatusException")
            \/ job' = "Completed" /\ Completes("h_fit")
    /\ UNCHANGED <<typed, scripts, nb, ns, fs, s3, endpoint>>

\* if not local: the model artifacts get the current inference.py.
HostReplaceCell ==
    /\ At("h_replace")
    /\ IF ~Defined(ns, {"local"})
       THEN ns' = ns /\ Raises("NameError")
       ELSE /\ ns' = IF ns["local"] THEN ns
                     ELSE Bind(ns, "model_artifacts",
                               ModelArtifact(ns["estimator"].base_job_name))
            /\ Completes("h_replace")
    /\ UNCHANGED <<typed, scripts, nb, fs, s3, job, endpoint>>

\* model.deploy(...) when not local, else estimator.deploy(...).
HostDeployCell ==
    /\ At("h_deploy")
    /\ IF \/ ~Defined(ns, {"local", "serve_instance_type"})
          \/ ~Defined(ns, IF ns["local"] THEN {"estimator"} ELSE {"model_artifacts"})
       THEN ns' = ns /\ endpoint' = endpoint /\ Raises("NameError")
       ELSE \/ ns' = ns /\ endpoint' = endpoint
               /\ Raises("UnexpectedStatusException")
            \/ /\ job = "Completed"
               /\ ns' = Bind(ns, "predictor", "Predictor")
               /\ endpoint' = "InService"
               /\ Completes("h_deploy")
    /\ UNCHANGED <<typed, scripts, nb, fs, s3, job>>

\* The cells that call predict_bird_from_file, directly or on a dataframe.
HostPredictCells == {"h_predict", "h_val", "h_test", "h_unseen"}

HostPredictCell ==
    /\ \E c \in HostPredictCells :
          /\ At(c)
          /\ IF ~Defined(ns, {"predictor"})
             THEN Raises("NameError")
             ELSE \/ Raises("ClientError")
                  \/ endpoint = "InService" /\ Completes(c)
    /\ UNCHANGED <<typed, scripts, nb, ns, fs, s3, job, endpoint>>

\* predictor.delete_endpoint()
HostDeleteCell ==
    /\ At("h_delete")
    /\ IF ~Defined(ns, {"predictor"})
       THEN endpoint' = endpoint /\ Raises("NameError")
       ELSE \/ endpoint' = endpoint /\ Raises("ClientError")
            \/ /\ endpoint = "InService"
               /\ endpoint' = "Deleted"
               /\ Completes("h_delete")
    /\ UNCHANGED <<typed, scripts, nb, ns, fs, s3, job>>

---------------------------------------------------------------------------
(* The batch notebook: configuration and the serving model.  An S3 URL is  *)
(* the key sequence below the bucket; an image URI is a record whose tag   *)
(* is the pair of the framework version and the '-gpu' or '-cpu' suffix.   *)

FrameworkVersions == {"1.12", "1.14", "1.15"}

birds_prefix == "DEMO-TF-image-classification-birds"

\* The configuration cell; the user sets the two switches.
BatchConfig(names, gpu, version) ==
    ("training_job_name" :> "mpr-tf-ic-2019-09-10-12-00-28-178")
    @@ ("USE_GPU_INSTANCE" :> gpu)
    @@ ("TF_FRAMEWORK_VERSION" :> version)
    @@ ("TF_ACCOUNT_NUM" :>
          IF version = "1.12" THEN "520713654638" ELSE "763104351884")
    @@ ("TF_CONTAINER_NAME" :>
          IF version = "1.12" THEN "sagemaker-tensorflow-serving"
          ELSE "tensorflow-inference")
    @@ names

BatchConfigCell ==
    /\ At("b_config")
    /\ \E gpu \in BOOLEAN, version \in FrameworkVersions :
          ns' = BatchConfig(ns, gpu, version)
    /\ Completes("b_config")
    /\ UNCHANGED <<typed, scripts, nb, fs, s3, job, endpoint>>

BatchClassesCell ==
    /\ At("b_classes")
    /\ ns' = Bind(ns, "class_name_list", <<"013.Bobolink", "017.Cardinal">>)
    /\ Completes("b_classes")
    /\ UNCHANGED <<typed, scripts, nb, fs, s3, job, endpoint>>

BatchSessionCell ==
    /\ At("b_session")
    /\ ns' = ("sess" :> "Session") @@ ("bucket" :> "default_bucket")
             @@ ("prefix" :> birds_prefix)
             @@ ("model_prefix" :> "mpr-tf-ic-gpu")
             @@ ("model_artifacts" :> ModelArtifact(ns["training_job_name"]))
             @@ ("region_name" :> "region")
             @@ ns
    /\ Completes("b_session")
    /\ UNCHANGED <<typed, scripts, nb, fs, s3, job, endpoint>>

\* '{}.dkr.ecr.{}.amazonaws.com/{}:{}-suffix'.format(...)
ImageUri(names, suffix) ==
    [account    |-> names["TF_ACCOUNT_NUM"],
     region     |-> names["region_name"],
     repository |-> names["TF_CONTAINER_NAME"],
     tag        |-> <<names["TF_FRAMEWORK_VERSION"], suffix>>]

\* model_artifacts[0:model_artifacts.index('model.tar.gz') - 1]
ArtifactsBase(url) ==
    LET i == CHOOSE j \in 1..Len(url) :
                 url[j] = "model.tar.gz" /\ \A k \in 1..(j - 1) : url[k] # url[j]
    IN  SubSeq(url, 1, i - 1)

\* Mutant of SelectImage: the CPU image on the GPU instance type.
SelectImageCpuTag(names) ==
    IF names["USE_GPU_INSTANCE"]
    THEN ("batch_instance_type" :> "ml.p3.2xlarge")
         @@ ("framework_image" :> ImageUri(names, "-cpu"))
         @@ ("model_artifacts_base" :> ArtifactsBase(names["model_artifacts"]))
         @@ ("model_artifacts" :>
               ArtifactsBase(names["model_artifacts"]) \o <<"model_gpu.tar.gz">>)
         @@ names
    ELSE ("batch_instance_type" :> "ml.c5.4xlarge")
         @@ ("framework_image" :> ImageUri(names, "-cpu"))
         @@ names

\* The names bound by the if USE_GPU_INSTANCE statement.
SelectImage(names) ==
    IF names["USE_GPU_INSTANCE"]
    THEN ("batch_instance_type" :> "ml.p3.2xlarge")
         @@ ("framework_image" :> ImageUri(names, "-gpu"))
         @@ ("model_artifacts_base" :> ArtifactsBase(names["model_artifacts"]))
         @@ ("model_artifacts" :>
               ArtifactsBase(names["model_artifacts"]) \o <<"model_gpu.tar.gz">>)
         @@ names
    ELSE ("batch_instance_type" :> "ml.c5.4xlarge")
         @@ ("framework_image" :> ImageUri(names, "-cpu"))
         @@ names

\* replace-requirements-gpu.sh publishes model_gpu.tar.gz next to the
\* artifacts of the training job.
ReplaceRequirementsGpu(bucket, base) ==
    IF base \o <<"model.tar.gz">> \in DOMAIN bucket
    THEN (base \o <<"model_gpu.tar.gz">> :> 1) @@ bucket
    ELSE bucket

BatchImageCell ==
    /\ At("b_image")
    /\ ns' = Bind(Bind(SelectImage(ns), "client", "sagemaker"),
                  "model_name", ns["model_prefix"] \o "-now")
    /\ s3' = IF ns["USE_GPU_INSTANCE"]
             THEN ReplaceRequirementsGpu(s3, ns'["model_artifacts_base"])
             ELSE s3
    /\ Completes("b_image")
    /\ UNCHANGED <<typed, scripts, nb, fs, job, endpoint>>

\* Model(model_data, image, ...).prepare_container_def(instance_type): the
\* image given to the Model is used for every instance type.
prepare_container_def(model, instance_type) ==
    [Image |-> model.image, ModelDataUrl |-> model.model_data]

\* The model cell; create_model may be refused by the service.
BatchModelCell ==
    /\ At("b_model")
    /\ LET tf_serving_model ==
               [model_data        |-> ns["model_artifacts"],
                image             |-> ns["framework_image"],
                framework_version |-> ns["TF_FRAMEWORK_VERSION"]]
           container ==
               prepare_container_def(tf_serving_model, ns["batch_instance_type"])
       IN  /\ ns' = ("tf_serving_model" :> tf_serving_model)
                    @@ ("tf_serving_container" :> container)
                    @@ ("model_params" :>
                          [ModelName  |-> ns["model_name"],
                           Containers |-> <<container>>])
                    @@ ns
           /\ Completes("b_model") \/ Raises("ClientError")
    /\ UNCHANGED <<typed, scripts, nb, fs, s3, job, endpoint>>

BatchPathsCell ==
    /\ At("b_paths")
    /\ ns' = Bind(Bind(ns, "input_data_path", <<ns["prefix"], "train">>),
                  "output_data_path", <<ns["prefix"], "batch_predictions">>)
    /\ Completes("b_paths")
    /\ UNCHANGED <<typed, scripts, nb, fs, s3, job, endpoint>>

---------------------------------------------------------------------------
(* The batch notebook: the transform job and its results.  A prediction    *)
(* file holds the JSON list of lists 'predictions' with the probabilities  *)
(* in units of 0.0001, and is marked with the transform job that wrote it. *)

\* The images of the data set: class folder and file name.
Images == {<<"013.Bobolink", "a.jpg">>, <<"017.Cardinal", "b.jpg">>,
           <<"017.Cardinal", "c.jpg">>, <<"035.Purple_Finch", "d.jpg">>}

\* What the served model may answer for an image.
Vectors == {<<9000, 1000>>, <<1000, 9000>>, <<4996, 5004>>,
            <<1000, 2000, 7000>>}

Prediction(job_name, v) == [job |-> job_name, predictions |-> <<v>>]

\* The result the transform job writes for an input object.
OutputKey(output_path, image) == output_path \o <<image[1], image[2] \o ".out">>

\* Mutant of s3_rm: only objects directly under the path are removed.
s3_rm_not_recursive(bucket, path) ==
    Restrict(bucket, {k \in DOMAIN bucket : Parent(k) # path})

\* aws s3 rm --recursive path
s3_rm(bucket, path) ==
    Restrict(bucket, {k \in DOMAIN bucket : ~IsPrefix(path, k)})

\* The prompt of the cell; the objects are removed on the answer 'yes'.
BatchRemoveS3Cell ==
    /\ At("b_rm_s3")
    /\ \E answer \in {"yes", "no"} :
          /\ typed' = Append(typed, answer)
          /\ s3' = IF answer = "yes" THEN s3_rm(s3, ns["output_data_path"])
                   ELSE s3
    /\ Completes("b_rm_s3")
    /\ UNCHANGED <<scripts, nb, ns, fs, job, endpoint>>

\* rm -rf ./batch_predictions/*
rm_rf_below(f, path) ==
    [dirs  |-> {d \in f.dirs : ~(IsPrefix(path, d) /\ Len(d) > Len(path))},
     files |-> Restrict(f.files,
                   {q \in DOMAIN f.files : ~IsPrefix(path, q)})]

BatchRemoveLocalCell ==
    /\ At("b_rm_local")
    /\ \E answer \in {"yes", "no"} :
          /\ typed' = Append(typed, answer)
          /\ fs' = IF answer = "yes" THEN rm_rf_below(fs, <<"batch_predictions">>)
                   ELSE fs
    /\ Completes("b_rm_local")
    /\ UNCHANGED <<scripts, nb, ns, s3, job, endpoint>>

\* The objects the transform job reads.
InputImages(bucket, input_path) ==
    {SubSeq(k, Len(input_path) + 1, Len(k)) :
        k \in {q \in DOMAIN bucket : UnderPrefix(q, input_path)}}

\* The transform cell: one result per input object, written over a result
\* of the same key; wait() raises when the job failed.
BatchTransformCell ==
    /\ At("b_transform")
    /\ LET transformer ==
               [model_name      |-> ns["model_name"],
                instance_count  |-> 2,
                instance_type   |-> ns["batch_instance_type"],
                max_concurrent_transforms |-> 100,
                output_path     |-> ns["output_data_path"],
                job_name        |-> "tf-birds-image-transform-now"]
           inputs == InputImages(s3, ns["input_data_path"])
       IN  /\ ns' = ("batch_instance_count" :> 2) @@ ("concurrency" :> 100)
                    @@ ("transformer" :> transformer) @@ ns
           /\ \/ /\ job' = "Failed"
                 /\ s3' = s3
                 /\ Raises("UnexpectedStatusException")
              \/ /\ job' = "Completed"
                 /\ \E answer \in [inputs -> Vectors] :
                       s3' = [k \in {OutputKey(transformer.output_path, i) :
                                       i \in inputs} |->
                                Prediction(transformer.job_name,
                                    answer[CHOOSE i \in inputs :
                                        OutputKey(transformer.output_path, i) = k])]
                             @@ s3
                 /\ Completes("b_transform")
    /\ UNCHANGED <<typed, scripts, nb, fs, endpoint>>

\* aws s3 cp --recursive from_path to_dir
s3_cp(f, bucket, from_path, to_dir) ==
    LET keys == {k \in DOMAIN bucket : UnderPrefix(k, from_path)}
        local(k) == to_dir \o SubSeq(k, Len(from_path) + 1, Len(k))
        new == {local(k) : k \in keys}
    IN  [dirs  |-> f.dirs \cup {SubSeq(q, 1, n) : q \in new, n \in 1..2},
         files |-> [q \in new |->
                      bucket[CHOOSE k \in keys : local(k) = q]] @@ f.files]

BatchDownloadCell ==
    /\ At("b_download")
    /\ fs' = s3_cp(fs, s3, ns["output_data_path"], <<"batch_predictions">>)
    /\ Completes("b_download")
    /\ UNCHANGED <<typed, scripts, nb, ns, s3, job, endpoint>>

\* glob.glob('batch_predictions/*/*')
Glob(f) ==
    {q \in DOMAIN f.files : Len(q) = 3 /\ q[1] = "batch_predictions"}

\* filepaths[0] of the sample cell is whichever path the glob lists first.
BatchSampleCell ==
    /\ At("b_sample")
    /\ IF Glob(fs) = {}
       THEN ns' = Bind(ns, "filepaths", {}) /\ Raises("IndexError")
       ELSE /\ \E q \in Glob(fs) :
                  ns' = Bind(Bind(ns, "filepaths", Glob(fs)), "sample_file", q)
            /\ Completes("b_sample")
    /\ UNCHANGED <<typed, scripts, nb, fs, s3, job, endpoint>>

---------------------------------------------------------------------------
(* The batch notebook: evaluation of the downloaded results.               *)

\* float('%.3f' % item): the probability in units of 0.001, rounded to the
\* nearest (no probability considered lies half-way).
Round3(p) == (p + 5) \div 10

\* for sublist in jstr['predictions'] for item in sublist
RECURSIVE Flatten(_)
Flatten(lists) ==
    IF lists = <<>> THEN <<>> ELSE Head(lists) \o Flatten(Tail(lists))

\* list.index(x), for an x in the list: the first position, from 0.
IndexOf(list, x) ==
    (CHOOSE i \in 1..Len(list) :
        list[i] = x /\ \A j \in 1..(i - 1) : list[j] # x) - 1

\* np.argmax of a non-empty array: the first position of the maximum, from 0.
argmax(a) ==
    (CHOOSE i \in 1..Len(a) :
        /\ \A j \in 1..Len(a) : a[j] <= a[i]
        /\ \A j \in 1..(i - 1) : a[j] < a[i]) - 1

NoTally == [total |-> 0, correct |-> 0, predicted |-> <<>>, actual |-> <<>>]

\* Mutant of EvalEntry: the index is appended before the class name is
\* looked up.
EvalEntryAppendFirst(t, class_name_list, entry, jstr) ==
    LET actual_label == entry[2]
        flat == Flatten(jstr.predictions)
        results == [i \in 1..Len(flat) |-> Round3(flat[i])]
    IN  IF \A i \in 1..Len(class_name_list) : class_name_list[i] # actual_label
        THEN t
        ELSE IF results = <<>> THEN t
        ELSE IF argmax(results) >= Len(class_name_list)
        THEN [t EXCEPT !.predicted = Append(@, argmax(results))]
        ELSE [total     |-> t.total + 1,
              correct   |-> t.correct +
                  (IF class_name_list[argmax(results) + 1] = actual_label
                   THEN 1 ELSE 0),
              predicted |-> Append(t.predicted, argmax(results)),
              actual    |-> Append(t.actual,
                                   IndexOf(class_name_list, actual_label))]

\* The body of the loop for one entry.  An exception (the folder is not in
\* class_name_list, argmax of an empty array, an index beyond the list)
\* leaves the entry out.
EvalEntry(t, class_name_list, entry, jstr) ==
    LET actual_label == entry[2]
        flat == Flatten(jstr.predictions)
        results == [i \in 1..Len(flat) |-> Round3(flat[i])]
    IN  IF \A i \in 1..Len(class_name_list) : class_name_list[i] # actual_label
        THEN t
        ELSE IF results = <<>> THEN t
        ELSE IF argmax(results) >= Len(class_name_list) THEN t
        ELSE [total     |-> t.total + 1,
              correct   |-> t.correct +
                  (IF class_name_list[argmax(results) + 1] = actual_label
                   THEN 1 ELSE 0),
              predicted |-> Append(t.predicted, argmax(results)),
              actual    |-> Append(t.actual,
                                   IndexOf(class_name_list, actual_label))]

\* The loop over the entries of the glob, in the order the glob lists them.
RECURSIVE EvalLoop(_, _, _, _)
EvalLoop(t, class_name_list, f, entries) ==
    IF entries = {} THEN t
    ELSE LET entry == CHOOSE q \in entries : TRUE
         IN  EvalLoop(EvalEntry(t, class_name_list, entry, f.files[entry]),
                      class_name_list, f, entries \ {entry})

BatchEvalCell ==
    /\ At("b_eval")
    /\ LET t == EvalLoop(NoTally, ns["class_name_list"], fs, Glob(fs))
       IN  ns' = ("total" :> t.total) @@ ("correct" :> t.correct)
                 @@ ("predicted" :> t.predicted) @@ ("actual" :> t.actual)
                 @@ ns
    /\ Completes("b_eval")
    /\ UNCHANGED <<typed, scripts, nb, fs, s3, job, endpoint>>

\* accuracy = correct / total
BatchAccuracyCell ==
    /\ At("b_accuracy")
    /\ IF ns["total"] = 0
       THEN ns' = ns /\ Raises("ZeroDivisionError")
       ELSE /\ ns' = Bind(ns, "accuracy",
                          [num |-> ns["correct"], den |-> ns["total"]])
            /\ Completes("b_accuracy")
    /\ UNCHANGED <<typed, scripts, nb, fs, s3, job, endpoint>>

\* sklearn's confusion_matrix(y_true, y_pred, labels): cell [i][j] counts
\* the positions with y_true = i and y_pred = j; other positions are left out.
confusion_matrix(y_true, y_pred, labels) ==
    [i \in labels |-> [j \in labels |->
        Cardinality({k \in 1..Len(y_true) : y_true[k] = i /\ y_pred[k] = j})]]

\* create_and_plot_confusion_matrix(actual, predicted); the matrix is what
\* the cell displays.  Lists of different length are refused.
BatchConfusionCell ==
    /\ At("b_cm")
    /\ IF Len(ns["actual"]) # Len(ns["predicted"])
       THEN ns' = ns /\ Raises("ValueError")
       ELSE /\ ns' = Bind(ns, "cnf_matrix",
                        confusion_matrix(ns["actual"], ns["predicted"],
                            0..(Len(ns["class_name_list"]) - 1)))
            /\ Completes("b_cm")
    /\ UNCHANGED <<typed, scripts, nb, fs, s3, job, endpoint>>

---------------------------------------------------------------------------
(* Runs of the batch notebook on a data set of up to MaxImages images,     *)
(* with or without the results of an earlier run in the bucket and in the  *)
(* local folder.                                                           *)

\* An earlier run predicted for an image that has since left the data set
\* and for one that may still be in it.
EarlierOutputs ==
    LET output_path == <<birds_prefix, "batch_predictions">>
    IN  (OutputKey(output_path, <<"013.Bobolink", "old.jpg">>)
             :> Prediction("tf-birds-image-transform-earlier", <<9000, 1000>>))
        @@ (OutputKey(output_path, <<"017.Cardinal", "b.jpg">>)
             :> Prediction("tf-birds-image-transform-earlier", <<9000, 1000>>))

EarlierLocal ==
    s3_cp(NoData, EarlierOutputs, <<birds_prefix, "batch_predictions">>,
          <<"batch_predictions">>)

DataSets == {S \in SUBSET Images : S # {} /\ Cardinality(S) <= MaxImages}

Uploaded(S) == [k \in {<<birds_prefix, "train">> \o i : i \in S} |-> 1]

InitBatch ==
    /\ nb = "tf-batch"
    /\ pc = "b_config"
    /\ exc = ""
    /\ ns = NoNames
    /\ fs \in {NoData, EarlierLocal}
    /\ \E S \in DataSets, prior \in {NoObjects, EarlierOutputs} :
          s3 = (ModelArtifact("mpr-tf-ic-2019-09-10-12-00-28-178") :> 1)
               @@ Uploaded(S) @@ prior
    /\ job = "none"
    /\ endpoint = "none"
    /\ log = <<>>
    /\ scripts = Scripts
    /\ typed = <<>>

NextBatch ==
    \/ BatchConfigCell \/ BatchClassesCell \/ BatchSessionCell
    \/ BatchImageCell \/ BatchModelCell \/ BatchPathsCell
    \/ BatchRemoveS3Cell \/ BatchRemoveLocalCell \/ BatchTransformCell
    \/ BatchDownloadCell \/ BatchSampleCell \/ BatchEvalCell
    \/ BatchAccuracyCell \/ BatchConfusionCell

SpecBatch == InitBatch /\ [][NextBatch]_vars

---------------------------------------------------------------------------
(* Notebook runs: every cell once, top to bottom, until a cell raises.     *)

\* What an earlier run of hello-pipe-mode that was not cleaned up leaves.
EarlierNames(MODE) == SplitData(ModeConfig(NoNames, MODE))
EarlierFs(MODE) == SaveData(ResetData(NoData).fs, EarlierNames(MODE)).fs
EarlierS3(MODE) ==
    upload_data((ModelArtifact(EarlierNames(MODE)["BASE_JOB_NAME"]) :> 1),
                EarlierFs(MODE), <<"data">>, data_prefix)

PriorFs == {NoData, EarlierFs("fast-demo"), EarlierFs("one-slow-node")}
PriorS3 == {NoObjects, EarlierS3("fast-demo"), EarlierS3("one-slow-node")}

Init ==
    /\ nb \in {"hello-pipe-mode", "tf-training-hosting"}
    /\ pc = Cells(nb)[1]
    /\ exc = ""
    /\ ns = NoNames
    /\ fs \in PriorFs
    /\ s3 \in PriorS3
    /\ job = "none"
    /\ endpoint = "none"
    /\ log = <<>>
    /\ scripts = Scripts
    /\ typed = <<>>

Next ==
    \/ TypesCell \/ ModeCell \/ SedCell \/ SplitCell \/ CountsCell \/ ResetCell
    \/ SaveCell \/ DelTrainCell \/ SessionCell \/ UploadCell
    \/ EstimatorCell \/ FitCell \/ DeployCell \/ PredictCell
    \/ DeleteEndpointCell \/ CleanupCell \/ DelTestCell
    \/ HostEstimatorCell \/ HostInputsCell \/ HostFitCell \/ HostReplaceCell
    \/ HostDeployCell \/ HostPredictCell \/ HostDeleteCell

Spec == Init /\ [][Next]_vars

---------------------------------------------------------------------------
(* The data cells of hello-pipe-mode on small inputs: arrays of up to      *)
(* MaxLen rows in up to MaxFiles files.  The user may execute the reset or *)
(* the clean-up cell again right after it, and may skip to the clean-up    *)
(* cell, also after an exception.                                          *)

DataNames(n_train, n_test, n_val, n_files) ==
    ("X_train" :> n_train) @@ ("y_train" :> n_train)
    @@ ("X_test" :> n_test) @@ ("y_test" :> n_test)
    @@ ("X_val" :> n_val) @@ ("y_val" :> n_val)
    @@ ("NUM_FILES" :> n_files)

\* Left by an earlier run that wrote more files than any run considered.
EarlierData ==
    SaveData(ResetData(NoData).fs,
             DataNames(MaxLen, MaxLen, MaxLen, MaxFiles + 1)).fs
EarlierObjects ==
    upload_data((ModelArtifact("tf-pipe-fast-demo") :> 1),
                EarlierData, <<"data">>, data_prefix)

InitData ==
    /\ nb = "hello-pipe-mode"
    /\ pc = "reset"
    /\ exc = ""
    /\ ns \in {DataNames(a, b, c, n) :
                 a \in 0..MaxLen, b \in 0..MaxLen, c \in 0..MaxLen,
                 n \in 1..MaxFiles}
    /\ fs \in {NoData, EarlierData}
    /\ s3 \in {NoObjects, EarlierObjects}
    /\ job = "none"
    /\ endpoint = "none"
    /\ log = <<>>
    /\ scripts = Scripts
    /\ typed = <<>>

\* The last k entries of the log are all c.
EndsWith(k, c) ==
    Len(log) >= k /\ \A i \in (Len(log) - k + 1)..Len(log) : log[i] = c

\* The user executes the cell just completed once more.
RunAgain ==
    /\ \E c \in {"reset", "cleanup"} :
          /\ exc = ""
          /\ EndsWith(1, c)
          /\ ~EndsWith(MaxRuns, c)
          /\ pc = NextCell(nb, c)
          /\ pc' = c
    /\ UNCHANGED <<typed, scripts, nb, exc, ns, fs, s3, job, endpoint, log>>

\* The user goes on with the clean-up cell, leaving out the cells between.
SkipToCleanup ==
    /\ pc \in {"reset", "save", "del_train", "session", "upload", "estimator"}
    /\ pc' = "cleanup"
    /\ exc' = ""
    /\ UNCHANGED <<typed, scripts, nb, ns, fs, s3, job, endpoint, log>>

NextData ==
    \/ ResetCell \/ SaveCell \/ DelTrainCell \/ SessionCell \/ UploadCell
    \/ CleanupCell \/ RunAgain \/ SkipToCleanup

SpecData == InitData /\ [][NextData]_vars

---------------------------------------------------------------------------
(* The configuration and sed cells of hello-pipe-mode, executed up to      *)
(* MaxSedRuns times: after the sed cell the user may go back to the        *)
(* configuration cell, choose a MODE and execute the sed cell again.       *)

InitSed ==
    /\ nb = "hello-pipe-mode"
    /\ pc = "mode"
    /\ exc = ""
    /\ ns = NoNames
    /\ fs = NoData
    /\ s3 = NoObjects
    /\ job = "none"
    /\ endpoint = "none"
    /\ log = <<>>
    /\ scripts = Scripts
    /\ typed = <<>>

SedRuns == Len(SelectSeq(log, LAMBDA c : c = "sed"))

BackToMode ==
    /\ pc = NextCell(nb, "sed")
    /\ exc = ""
    /\ SedRuns < MaxSedRuns
    /\ pc' = "mode"
    /\ UNCHANGED <<typed, scripts, nb, exc, ns, fs, s3, job, endpoint, log>>

NextSed == ModeCell \/ SedCell \/ BackToMode

SpecSed == InitSed /\ [][NextSed]_vars

---------------------------------------------------------------------------
(* One call of save_to_n_files on arrays of up to MaxLen rows, written to  *)
(* up to MaxFiles files of a channel folder that is empty or holds a file  *)
(* of an earlier run.                                                      *)

Features == {<<10, 11>>, <<20, 21>>}
ClassLabels == {0, 1}

RowArrays(S) == UNION {[1..k -> S] : k \in 0..MaxLen}

\* A file an earlier run wrote as the first file of the channel.
EarlierRows(channel) ==
    LET f == ResetData(NoData).fs
    IN  [f EXCEPT !.files = (ShardPath(channel, 0) :>
                               Examples(<<<<30, 31>>, <<30, 31>> >>, <<1, 1>>))]

InitRows ==
    /\ nb = "hello-pipe-mode"
    /\ pc = "save"
    /\ exc = ""
    /\ \E x \in RowArrays(Features), y \in RowArrays(ClassLabels),
          n_files \in 1..MaxFiles, channel \in {"train", "test", "val"} :
          /\ Len(x) = Len(y)
          /\ ns = ("x" :> x) @@ ("y" :> y) @@ ("n_files" :> n_files)
                  @@ ("channel" :> channel)
          /\ fs \in {ResetData(NoData).fs, EarlierRows(channel)}
    /\ s3 = NoObjects
    /\ job = "none"
    /\ endpoint = "none"
    /\ log = <<>>
    /\ scripts = Scripts
    /\ typed = <<>>

SaveRows ==
    /\ At("save")
    /\ LET r == save_rows_to_n_files(fs, ns["x"], ns["y"], ns["n_files"],
                                     ns["channel"])
       IN  /\ fs' = r.fs
           /\ IF r.exc = "" THEN Completes("save") ELSE Raises(r.exc)
    /\ UNCHANGED <<typed, scripts, nb, ns, s3, job, endpoint>>

NextRows == SaveRows

SpecRows == InitRows /\ [][NextRows]_vars

---------------------------------------------------------------------------
(* Properties.                                                             *)

Hello == nb = "hello-pipe-mode"

\* Cell c has just run to its end and nothing happened since.
JustCompleted(c) ==
    log # <<>> /\ Last(log) = c /\ pc = NextCell(nb, c) /\ exc = ""

Range(s) == {s[i] : i \in DOMAIN s}

RECURSIVE SumRecords(_, _)
SumRecords(files, S) ==
    IF S = {} THEN 0
    ELSE LET p == CHOOSE q \in S : TRUE
         IN  files[p] + SumRecords(files, S \ {p})

\* The files of a channel folder, and the objects under the data prefix.
FilesIn(channel) == {p \in DOMAIN fs.files : IsPrefix(<<"data", channel>>, p)}
DataObjects == {k \in DOMAIN s3 : UnderPrefix(k, data_prefix)}

Channels == {"train", "test", "val"}
ArrayOf(channel) == "X_" \o channel

IsStep(e) ==
    e \in {"split", "save", "upload", "fit", "deploy", "predict",
           "delete_endpoint", "cleanup"}

\* The steps of a complete run of hello-pipe-mode, in order.
ExpectedSteps ==
    <<"split", "save", "upload", "fit", "deploy">>
    \o [i \in 1..100 |-> "predict"]
    \o <<"delete_endpoint", "cleanup">>

\* C1: in a run of hello-pipe-mode the steps happen in the order: dataset
\* split, files written, files uploaded, job fitted (fit returns with the
\* job completed), endpoint deployed, predictions made, endpoint deleted,
\* data deleted.  At every moment the steps done so far are a prefix of that
\* order, so no prediction precedes deploy, the endpoint is not deleted
\* before the last prediction and the S3 data is not deleted before fit
\* returns; a run that executes every cell has done all of them.
C1_StepsInOrder ==
    Hello =>
        /\ IsPrefix(SelectSeq(log, IsStep), ExpectedSteps)
        /\ pc = "done" => SelectSeq(log, IsStep) = ExpectedSteps
        /\ "fit" \in Range(log) => job = "Completed"
        /\ (log # <<>> /\ Last(log) = "predict") => endpoint = "InService"

C1_Witness == Hello /\ pc = "done" /\ exc = ""

ShareOf(v, num, den, n) ==
    den * v - num * n <= den /\ num * n - den * v <= den

\* C3: once the split cell has run, train holds 70% of the NUM_SAMPLES
\* samples, validation (X_val, y_val) 20% and test (X_test, y_test) 10%.
C3_SplitShares ==
    (Hello /\ Defined(ns, {"X_train", "X_val", "X_test"})) =>
        /\ ShareOf(ns["X_train"], 7, 10, ns["NUM_SAMPLES"])
        /\ ShareOf(ns["X_val"], 2, 10, ns["NUM_SAMPLES"])
        /\ ShareOf(ns["X_test"], 1, 10, ns["NUM_SAMPLES"])
        /\ ns["y_val"] = ns["X_val"] /\ ns["y_test"] = ns["X_test"]

\* C4: when the save cell has run, the record counts of any two files of a
\* channel differ by at most one and sum to the number of rows of the
\* channel's array.
C4_EvenSplit ==
    JustCompleted("save") =>
        \A ch \in Channels :
            /\ \A p, q \in FilesIn(ch) : fs.files[p] - fs.files[q] <= 1
            /\ SumRecords(fs.files, FilesIn(ch)) = ns[ArrayOf(ch)]

C4_Witness ==
    /\ JustCompleted("save")
    /\ ns["NUM_FILES"] > 1
    /\ ns["X_train"] > ns["NUM_FILES"]
    /\ ns["X_train"] % ns["NUM_FILES"] # 0

\* C5: when the save cell has run, each of data/train, data/test and
\* data/val holds exactly NUM_FILES files, <channel>0.tfrecords up to
\* <channel>(NUM_FILES-1).tfrecords, one for every index also when there are
\* fewer rows than files, and data/ holds no other file.
C5_FilesPerChannel ==
    JustCompleted("save") =>
        /\ \A ch \in Channels :
              /\ FilesIn(ch) =
                    {<<"data", ch, ch \o ToString(i) \o ".tfrecords">> :
                        i \in 0..(ns["NUM_FILES"] - 1)}
              /\ Cardinality(FilesIn(ch)) = ns["NUM_FILES"]
        /\ Cardinality(DOMAIN fs.files) = 3 * ns["NUM_FILES"]

C5_Witness ==
    /\ JustCompleted("save")
    /\ ns["NUM_FILES"] > ns["X_val"]
    /\ ns["X_val"] > 0
    /\ \E p \in FilesIn("val") : fs.files[p] = 0

\* data/ with the three empty channel folders.
EmptyChannels ==
    [dirs  |-> {<<"data">>, <<"data", "train">>, <<"data", "test">>,
                <<"data", "val">>},
     files |-> NoFiles]

\* C6: the reset cell never raises and leaves data/ holding exactly the
\* three empty channel folders, whatever earlier runs left and however
\* often it is executed, so that the save cell after it leaves no more than
\* NUM_FILES files in a channel folder.
C6_ResetLeavesEmptyChannels ==
    /\ pc = "reset" => exc = ""
    /\ JustCompleted("reset") => fs = EmptyChannels
    /\ JustCompleted("save") =>
          \A ch \in Channels : Cardinality(FilesIn(ch)) <= ns["NUM_FILES"]

C6_Witness == JustCompleted("reset") /\ EndsWith(2, "reset")

\* C7: when the upload cell has run, the objects under
\* data/DEMO-hello-pipe-mode/ are exactly the files under data/, each under
\* the key of its relative path and with the file's content.
C7_ObjectsMatchFiles ==
    (Hello /\ JustCompleted("upload")) =>
        /\ DataObjects = {data_prefix \o Tail(p) : p \in DOMAIN fs.files}
        /\ Cardinality(DataObjects) = Cardinality(DOMAIN fs.files)
        /\ \A p \in DOMAIN fs.files : s3[data_prefix \o Tail(p)] = fs.files[p]

C7_Witness ==
    /\ Hello /\ JustCompleted("upload")
    /\ Cardinality(DataObjects) = 3 * 6
    /\ ModelArtifact("tf-pipe-one-slow-node") \in DOMAIN s3

\* C8: when the clean-up cell has run, data/ does not exist and no object is
\* under data/DEMO-hello-pipe-mode/; the cell does not raise for a folder or
\* objects that are not there (it raises only for a name the kernel does
\* not have or a failed call to S3).
C8_NothingLeftAfterCleanup ==
    /\ JustCompleted("cleanup") =>
          /\ fs.dirs = {} /\ DOMAIN fs.files = {}
          /\ DataObjects = {}
    /\ (pc = "cleanup" /\ exc # "") => exc \in {"NameError", "ClientError"}

C8_Witness == JustCompleted("cleanup") /\ EndsWith(2, "cleanup")

\* The configuration of a documented mode.
HasConfig(instances, samples, features, files, epochs) ==
    /\ ns["TRAIN_INSTANCE_COUNT"] = instances
    /\ ns["NUM_SAMPLES"] = samples
    /\ ns["NUM_FEATURES"] = features
    /\ ns["NUM_FILES"] = files
    /\ ns["NUM_EPOCHS"] = epochs

\* C9: the MODE cell leaves all six settings defined, and for the mode names
\* of the notebook's text gives fast_demo 1 instance, 10000 samples, 50
\* features, 6 files, 200 epochs; one_slow_node 1 instance, 90000 samples,
\* 5000 features, 21 files, 5000 epochs; speedy_cluster the same with 3
\* instances.
C9_DocumentedModes ==
    (Hello /\ "MODE" \in DOMAIN ns) =>
        /\ Defined(ns, {"TRAIN_INSTANCE_COUNT", "NUM_SAMPLES", "NUM_FEATURES",
                        "NUM_FILES", "NUM_EPOCHS", "BASE_JOB_NAME"})
        /\ ns["MODE"] = "fast_demo" => HasConfig(1, 10000, 50, 6, 200)
        /\ ns["MODE"] = "one_slow_node" => HasConfig(1, 90000, 5000, 21, 5000)
        /\ ns["MODE"] = "speedy_cluster" => HasConfig(3, 90000, 5000, 21, 5000)

\* C10: in every configuration of the MODE cell NUM_FILES is a positive
\* multiple of TRAIN_INSTANCE_COUNT, and when fit returns the job has run on
\* that number of instances with NUM_FILES objects in each channel, a whole
\* number of objects per instance.
C10_FilesMultipleOfInstances ==
    /\ (Hello /\ "MODE" \in DOMAIN ns) =>
          /\ ns["NUM_FILES"] > 0
          /\ ns["TRAIN_INSTANCE_COUNT"] > 0
          /\ ns["NUM_FILES"] % ns["TRAIN_INSTANCE_COUNT"] = 0
    /\ (Hello /\ JustCompleted("fit")) =>
          /\ job = "Completed"
          /\ ns["estimator"].train_instance_count = ns["TRAIN_INSTANCE_COUNT"]
          /\ \A ch \in Channels :
                /\ Cardinality(ChannelObjects(s3, ns["inputs"], ch))
                      = ns["NUM_FILES"]
                /\ Cardinality(ChannelObjects(s3, ns["inputs"], ch))
                      % ns["estimator"].train_instance_count = 0

C10_Witness ==
    Hello /\ JustCompleted("fit") /\ ns["TRAIN_INSTANCE_COUNT"] = 3

\* What the Python statement on a line assigns to NUM_FEATURES: the text of
\* the value, which only a comment may follow; "" for any other line.
Assigns(line) ==
    IF /\ Len(line) >= 3
       /\ line[1] = Word("NUM_FEATURES") /\ line[2] = Word("=")
       /\ line[3].hashes = 0
       /\ Len(line) > 3 => line[4].hashes > 0
    THEN line[3].text ELSE ""

C12_SampleCountsMatchFiles ==
    (Hello /\ "estimator" \in Range(log) /\ pc # "cleanup"
           /\ "cleanup" \notin Range(log)) =>
        LET hp == ns["hyperparameters"]
            written == [c \in Channels |-> SumRecords(fs.files, FilesIn(c))]
        IN  /\ hp.num_train_samples = written["train"]
            /\ hp.num_val_samples = written["val"]
            /\ hp.num_test_samples = written["test"]
            /\ hp.num_train_samples + hp.num_val_samples + hp.num_test_samples
                   = ns["NUM_SAMPLES"]

\* The slow modes: 90000 samples in 62999, 9001 and 18000 records.
C12_Witness ==
    /\ JustCompleted("estimator")
    /\ ns["NUM_SAMPLES"] = 90000
    /\ ns["hyperparameters"].num_val_samples = 9001
    /\ SumRecords(fs.files, FilesIn("val")) = 9001

Batch == nb = "tf-batch"

\* The local files the download writes for the results of the transform
\* job of this run: one per image of the data set.
CurrentResults ==
    {<<"batch_predictions">> \o SubSeq(k, 3, Len(k)) :
        k \in {OutputKey(ns["output_data_path"], i) :
                 i \in InputImages(s3, ns["input_data_path"])}}

\* The evaluation loop read the results of this run's job and no others.
OnlyCurrentResults ==
    /\ Glob(fs) = CurrentResults
    /\ \A q \in Glob(fs) : fs.files[q].job = ns["transformer"].job_name
    /\ ns["total"] <= Cardinality(CurrentResults)

\* C13 as stated: the prediction files the evaluation loop reads are exactly
\* those of the transform job of this run; no file of an earlier run is
\* counted.
C13_OnlyCurrentResults == JustCompleted("b_eval") => OnlyCurrentResults

\* C13, amended: when the user answers 'yes' at both prompts, no object is
\* left under the output path when the transform job is launched, nothing
\* is left in ./batch_predictions when the results are downloaded, and the
\* files the evaluation loop reads are exactly those of this run's job.
C13_OnlyCurrentResultsAfterBothYes ==
    /\ (At("b_transform") /\ typed[1] = "yes") =>
           \A k \in DOMAIN s3 : ~IsPrefix(ns["output_data_path"], k)
    /\ (At("b_download") /\ typed[2] = "yes") => Glob(fs) = {}
    /\ (JustCompleted("b_eval") /\ typed = <<"yes", "yes">>) =>
           OnlyCurrentResults

C13_Witness ==
    /\ JustCompleted("b_eval")
    /\ typed = <<"yes", "yes">>
    /\ Cardinality(Glob(fs)) = 2
    /\ ns["total"] = 2

\* The entries of the glob that the loop body read without an exception.
Processed ==
    {q \in Glob(fs) :
        EvalEntry(NoTally, ns["class_name_list"], q, fs.files[q]).total = 1}

\* The class with the highest probability in a prediction file.
HighestProbabilityClass(q) ==
    ns["class_name_list"][argmax(Flatten(fs.files[q].predictions)) + 1]

\* C14 as stated: after the evaluation loop, correct is the number of
\* processed files whose highest-probability class is the class of their
\* subfolder.
C14_CorrectCountsHighestProbability ==
    JustCompleted("b_eval") =>
        ns["correct"] =
            Cardinality({q \in Processed : HighestProbabilityClass(q) = q[2]})

\* C15: for both values of USE_GPU_INSTANCE and every framework version, the
\* transform job runs on ml.p3.2xlarge with the image tagged version-gpu and
\* model_gpu.tar.gz, or on ml.c5.4xlarge with the image tagged version-cpu
\* and the model.tar.gz of the training job; the Transformer has the
\* instance type given to prepare_container_def.
C15_ContainerMatchesHardware ==
    (Batch /\ "transformer" \in DOMAIN ns) =>
        LET container == ns["model_params"].Containers[1]
            original == ModelArtifact(ns["training_job_name"])
        IN  /\ ns["transformer"].instance_type = ns["batch_instance_type"]
            /\ ns["transformer"].model_name = ns["model_params"].ModelName
            /\ container.Image.tag[1] = ns["TF_FRAMEWORK_VERSION"]
            /\ IF ns["USE_GPU_INSTANCE"]
               THEN /\ ns["transformer"].instance_type = "ml.p3.2xlarge"
                    /\ Last(container.Image.tag) = "-gpu"
                    /\ container.ModelDataUrl =
                           Parent(original) \o <<"model_gpu.tar.gz">>
               ELSE /\ ns["transformer"].instance_type = "ml.c5.4xlarge"
                    /\ Last(container.Image.tag) = "-cpu"
                    /\ container.ModelDataUrl = original

C15_Witness ==
    /\ JustCompleted("b_transform")
    /\ ns["USE_GPU_INSTANCE"]
    /\ ns["TF_FRAMEWORK_VERSION"] = "1.12"

\* The labels of the confusion matrix: range(len(class_name_list)).
Labels == 0..(Len(ns["class_name_list"]) - 1)

\* C17: after the evaluation loop predicted and actual have one element per
\* counted file, each an index into class_name_list; so the confusion
\* matrix leaves out no entry: its cells add up to total and its diagonal
\* adds up to correct.
C17_MatrixCountsEveryEntry ==
    (Batch /\ "b_eval" \in Range(log)) =>
        /\ Len(ns["predicted"]) = ns["total"]
        /\ Len(ns["actual"]) = ns["total"]
        /\ Range(ns["predicted"]) \cup Range(ns["actual"]) \subseteq Labels
        /\ JustCompleted("b_cm") =>
              LET cm == ns["cnf_matrix"]
              IN  /\ SumRecords([c \in Labels \X Labels |-> cm[c[1]][c[2]]],
                                Labels \X Labels) = ns["total"]
                  /\ SumRecords([i \in Labels |-> cm[i][i]], Labels)
                         = ns["correct"]

\* A run with a right and a wrong prediction and a file the loop left out.
C17_Witness ==
    /\ JustCompleted("b_cm")
    /\ ns["total"] = 2
    /\ ns["correct"] = 1
    /\ Cardinality(Glob(fs)) = 3

\* The records of the files channel0 .. channel(n - 1), read in this order.
RECURSIVE ReadFiles(_, _, _)
ReadFiles(f, channel, n) ==
    IF n = 0 THEN <<>>
    ELSE ReadFiles(f, channel, n - 1) \o f.files[ShardPath(channel, n - 1)]

\* C16: after save_to_n_files(x, y, n_files, channel) with len(x) = len(y),
\* the records of the files channel0 .. channel(n_files - 1), read in index
\* order, are the samples in their original order, each once: record i has
\* x[i] as features and y[i] as label.
C16_RecordsInOrder ==
    JustCompleted("save") =>
        ReadFiles(fs, ns["channel"], ns["n_files"]) = Examples(ns["x"], ns["y"])

\* Three different samples in two files, over a file of an earlier run.
C16_Witness ==
    /\ JustCompleted("save")
    /\ Len(ns["x"]) = 3
    /\ ns["n_files"] = 2
    /\ ns["x"][1] # ns["x"][2]
    /\ ns["y"][2] # ns["y"][3]
    /\ Len(fs.files[ShardPath(ns["channel"], 0)]) = 2
    /\ fs.files[ShardPath(ns["channel"], 1)] =
           <<[features |-> ns["x"][3], label |-> ns["y"][3]]>>

====
